---- MODULE Spec2Model ----
(***************************************************************************)
(* A model of the command-dispatch bridge of src/src/Remote.ts (class      *)
(* Remote, the built-in VisitGlobalRemoteAddon and the helper visitObject) *)
(* driven through the connector of src/src/TestRemoteConnector.ts.         *)
(*                                                                         *)
(* JavaScript runs the dispatcher on one thread; calls are synchronous.    *)
(* The model keeps the call stack of the dispatch loops in progress, so    *)
(* that user code (command handlers, addon lifecycle callbacks) can        *)
(* re-enter the dispatcher, and a per-call log of what was invoked.        *)
(***************************************************************************)
EXTENDS Naturals, Sequences, FiniteSets

VARIABLES
  commandHandleMap, \* Remote._commandHandleMap: type tag -> handler
  addons,           \* Remote._addons: installed addons, in push order
  listeners,        \* the connector's event table: events Remote listens to
  stack,            \* dispatch loops in progress, innermost last
  log,              \* what the current top-level call has done so far
  err,              \* what the last top-level call threw ("none" if nothing)
  cur,              \* the top-level call in progress or last completed
  disposed,         \* history: dispose() has been called
  vin,              \* visitObject: the arguments of the call
  vout              \* visitObject: its outcome

vars == <<commandHandleMap, addons, listeners, stack, log, err, cur, disposed, vin, vout>>

remoteVars == <<commandHandleMap, addons, listeners, stack, log, err, cur, disposed>>

visitVars == <<vin, vout>>

(***************************************************************************)
(* Bounds of the model.                                                    *)
(***************************************************************************)
\* longest visit path drawn as an input of visitObject
MaxPath == 3
\* longest addon list the model lets the dispatcher grow
MaxAddons == 3
\* most addons passed to one addAddon call
MaxArgs == 2
\* longest inbound array payload
MaxBatch == 2
\* most calls user code makes back into the dispatcher or the connector
\* (dispose, addAddon, sendFromClient) during one call from outside
MaxReentries == 1

(***************************************************************************)
(* JavaScript values, as far as visitObject tells them apart.              *)
(***************************************************************************)
Undefined == [k |-> "undefined", v |-> ""]

Null == [k |-> "null", v |-> ""]

Str(s) == [k |-> "string", v |-> s]

Obj(o) == [k |-> "object", v |-> o]

Fn(f) == [k |-> "function", v |-> f]

\* the outcome of a call: a returned value or a thrown error
Return(val) == [ok |-> TRUE, val |-> val]

Throw(name) == [ok |-> FALSE, val |-> Str(name)]

\* the objects the visit paths walk, by reference:
\*   root = {a: {b: {c(p, q) {...}, prop: "z", v: "value"}}, n: null}
\* (the shapes of the objects of test/index.test.ts)
HeapProps(o) ==
  CASE o = "root" -> [a |-> Obj("oa"), n |-> Null]
    [] o = "oa" -> [b |-> Obj("ob")]
    [] o = "ob" -> [c |-> Fn("cat"), prop |-> Str("z"), v |-> Str("value")]
    [] OTHER -> [none |-> Undefined]

\* the root the built-in addon walks from
GlobalThis == Obj("root")

IsNullish(val) == val.k \in {"undefined", "null"}

\* value[name]: reading a property of undefined or null throws a TypeError;
\* a property an object does not have, and any of these names on a string
\* or a function, reads as undefined
GetProp(val, name) ==
  IF IsNullish(val) THEN Throw("TypeError")
  ELSE IF val.k = "object" /\ name \in DOMAIN HeapProps(val.v)
  THEN Return(HeapProps(val.v)[name])
  ELSE Return(Undefined)

\* String(val), as a template literal converts its holes
ToString(val) ==
  CASE val.k = "string" -> val.v
    [] val.k = "undefined" -> "undefined"
    [] val.k = "null" -> "null"
    [] val.k = "object" -> "[object Object]"
    [] OTHER -> "function"

ArgAt(args, i) == IF i <= Len(args) THEN args[i] ELSE Undefined

\* the method c(arg1, arg2) { return `${arg1} ${arg2} ${this.prop}` }
CallFunction(f, this, args) ==
  LET prop == GetProp(this, "prop")
  IN IF ~prop.ok THEN prop
     ELSE Return(Str(ToString(ArgAt(args, 1)) \o " " \o ToString(ArgAt(args, 2))
                     \o " " \o ToString(prop.val)))

\* a step of a visit path: a property name, or {name, args?}
PropStep(name) == [call |-> FALSE, name |-> name, hasArgs |-> FALSE, args |-> <<>>]

CallStep(name, args) == [call |-> TRUE, name |-> name, hasArgs |-> TRUE, args |-> args]

CallStepNoArgs(name) == [call |-> TRUE, name |-> name, hasArgs |-> FALSE, args |-> <<>>]

\* arg.args || []
StepArgs(arg) == IF arg.hasArgs THEN arg.args ELSE <<>>

\* value[arg.name].call(value, ...(arg.args || []))
CallMethodMutantReceiver(value, arg) ==
  LET f == GetProp(value, arg.name)
  IN IF ~f.ok THEN f
     ELSE IF f.val.k # "function" THEN Throw("TypeError")
     ELSE CallFunction(f.val, GlobalThis, StepArgs(arg))

CallMethod(value, arg) ==
  LET f == GetProp(value, arg.name)
  IN IF ~f.ok THEN f
     ELSE IF f.val.k # "function" THEN Throw("TypeError")
     ELSE CallFunction(f.val, value, StepArgs(arg))

\* one iteration of the loop of visitObject
VisitStep(value, arg) ==
  IF ~arg.call THEN GetProp(value, arg.name) ELSE CallMethod(value, arg)

\* the loop of visitObject over the steps left; a throw ends it
RECURSIVE VisitLoop(_, _)
VisitLoop(r, steps) ==
  IF ~r.ok \/ steps = <<>> THEN r
  ELSE VisitLoop(VisitStep(r.val, Head(steps)), Tail(steps))

\* value ?? ""
Coalesce(val) == IF IsNullish(val) THEN Str("") ELSE val

\* visitObject(obj, args); args is what for...of is given: an array of steps,
\* or a value that is not iterable (a plain object), on which for...of throws
VisitObject(obj, args) ==
  IF ~args.iterable THEN Throw("TypeError")
  ELSE LET r == VisitLoop(Return(obj), args.items)
       IN IF r.ok THEN Return(Coalesce(r.val)) ELSE r

(***************************************************************************)
(* Commands, payloads, addons.                                             *)
(***************************************************************************)
Events == {"message", "open", "close", "error"}

LifecycleEvents == {"open", "close", "error"}

\* command types; no addon of the model handles "zz"
Tags == {"visit-global", "a", "b", "zz"}

\* a parsed command object: its type, a further field replyId, and its
\* indexed fields "0", "1", ... (the visit path of a visit-global command)
Cmd(type, replyId, keys) == [type |-> type, replyId |-> replyId, keys |-> keys]

Commands ==
  { Cmd("a", "r1", <<>>), Cmd("b", "r2", <<>>), Cmd("zz", "r3", <<>>),
    Cmd("visit-global", "r1", <<PropStep("a"), PropStep("b")>>) }

\* the text of an inbound payload, by what JSON.parse makes of it: one
\* object, an array of objects, or text that is not JSON
ObjectText(c) == [kind |-> "object", elems |-> <<c>>]

ArrayText(cs) == [kind |-> "array", elems |-> cs]

InvalidText == [kind |-> "invalid", elems |-> <<>>]

RECURSIVE SeqsUpTo(_, _)
SeqsUpTo(S, n) ==
  IF n = 0 THEN {<<>>}
  ELSE LET shorter == SeqsUpTo(S, n - 1)
       IN shorter \cup {Append(s, x) : s \in {t \in shorter : Len(t) = n - 1}, x \in S}

\* the commands drawn for array payloads
BatchCommands == {c \in Commands : c.type # "visit-global"}

Payloads ==
  {ObjectText(c) : c \in Commands}
    \cup {ArrayText(cs) : cs \in SeqsUpTo(BatchCommands, MaxBatch)}
    \cup {InvalidText}

\* the payloads user code sends in from inside a handler or a callback
InjectedPayloads ==
  {ObjectText(Cmd("a", "r1", <<>>)),
   ArrayText(<<Cmd("b", "r2", <<>>), Cmd("a", "r1", <<>>)>>),
   InvalidText}

\* the addons of the model: the built-in one (VG) and three user addons
AddonIds == {"VG", "A", "B", "P"}

UserAddons == AddonIds \ {"VG"}

\* the `for` tags of the handlers use() returns, in order
AddonTags(ad) ==
  CASE ad = "VG" -> <<"visit-global">>
    [] ad = "A" -> <<"a">>
    [] ad = "B" -> <<"b">>
    [] ad = "P" -> <<"b", "visit-global">>
    [] OTHER -> <<>>

\* the optional methods the addon defines
Defines(ad, method) ==
  CASE ad = "A" -> TRUE
    [] ad = "B" -> method = "handleOpen"
    [] ad = "P" -> method \in {"handleClose", "handleError"}
    [] OTHER -> FALSE

CallbackNameMutantCloseCallsOpen(ev) ==
  CASE ev = "open" -> "handleOpen"
    [] ev = "close" -> "handleOpen"
    [] OTHER -> "handleError"

\* the method _handleOpen / _handleClose / _handleError calls on each addon
CallbackName(ev) ==
  CASE ev = "open" -> "handleOpen"
    [] ev = "close" -> "handleClose"
    [] OTHER -> "handleError"

Handler(ad, i) == [for |-> AddonTags(ad)[i], addon |-> ad, idx |-> i]

NoHandler == [for |-> "", addon |-> "", idx |-> 0]

\* addon.use(remote): VisitGlobalRemoteAddon.use for the built-in addon
AddonUse(ad) == [i \in 1..Len(AddonTags(ad)) |-> Handler(ad, i)]

\* what a piece of user code (a handler body, a lifecycle callback) does
\* when it is invoked: it is an input of the model
Act(act, addon, data) == [act |-> act, addon |-> addon, data |-> data]

UserActs ==
  {Act("return", "", InvalidText), Act("throw", "", InvalidText),
   Act("dispose", "", InvalidText)}
    \cup {Act("addAddon", ad, InvalidText) : ad \in UserAddons}
    \cup {Act("sendFromClient", "", p) : p \in InjectedPayloads}

(***************************************************************************)
(* Errors.                                                                 *)
(***************************************************************************)
NoError == [name |-> "none", arg |-> ""]

DuplicateHandlerError(tag) == [name |-> "DuplicateHandlerError", arg |-> tag]

UnknownCommandTypeError(type) == [name |-> "UnknownCommandTypeError", arg |-> type]

SyntaxError == [name |-> "SyntaxError", arg |-> ""]

TypeError == [name |-> "TypeError", arg |-> ""]

UserError == [name |-> "UserError", arg |-> ""]

(***************************************************************************)
(* The Map of handlers.                                                    *)
(***************************************************************************)
EmptyMap == [t \in Tags |-> NoHandler]

MapHas(m, t) == m[t] # NoHandler

MapSet(m, t, h) == [m EXCEPT ![t] = h]

(***************************************************************************)
(* Call frames and the log.                                                *)
(***************************************************************************)
\* k: "addAddon", "message", or the lifecycle event of a fan-out
\* items: the addons passed to addAddon / the commands of cmdArray
\* i: the loop's position; hi: addAddon's inner loop (0: not in it)
\* busy: user code invoked by the loop is running (it has called back in)
Frame(k, id, items) == [k |-> k, id |-> id, items |-> items, i |-> 1, hi |-> 0, busy |-> FALSE]

IsEnter(x) == x.e = "enter"

NextId == 1 + Len(SelectSeq(log, IsEnter))

EnterEv(f) == [e |-> "enter", frame |-> f.id, k |-> f.k, items |-> f.items]

CommandEv(f, cmd, h) == [e |-> "command", frame |-> f.id, idx |-> f.i, cmd |-> cmd, registered |-> h]

CallEv(f, h, cmd, b) == [e |-> "call", frame |-> f.id, idx |-> f.i, h |-> h, cmd |-> cmd, does |-> b.act]

CallbackEv(f, ad, method, b) ==
  [e |-> "callback", frame |-> f.id, idx |-> f.i, addon |-> ad, method |-> method, does |-> b.act]

ReturnEv(f) == [e |-> "return", frame |-> f.id, idx |-> f.i]

PushEv(f, ad) == [e |-> "push", frame |-> f.id, addon |-> ad]

RegisterEv(f, h, present, ok) == [e |-> "register", frame |-> f.id, h |-> h, present |-> present, ok |-> ok]

DisposeEv == [e |-> "dispose"]

SendEv(data) == [e |-> "send", data |-> data]

Idle == stack = <<>>

Top == stack[Len(stack)]

SetTop(f) == [stack EXCEPT ![Len(stack)] = f]

\* the call of the top frame goes on with its next iteration
Advance(f) == SetTop([f EXCEPT !.i = f.i + 1, !.hi = 0, !.busy = FALSE])

\* the top frame calls into a new frame and waits for it
Enter(f, g) == Append(SetTop([f EXCEPT !.busy = TRUE]), g)

\* the call of the top frame returns: the user code that made it (if any)
\* returns to the loop that invoked it
Leave ==
  LET rest == SubSeq(stack, 1, Len(stack) - 1)
  IN IF rest = <<>>
     THEN stack' = <<>> /\ log' = log
     ELSE LET p == rest[Len(rest)]
          IN /\ stack' = [rest EXCEPT ![Len(rest)] = [p EXCEPT !.i = p.i + 1, !.busy = FALSE]]
             /\ log' = Append(log, ReturnEv(p))

UnwindMutantCaught(e) == stack' = Advance(Top) /\ err' = err

\* an exception nobody catches: every call in progress is abandoned
Unwind(e) == stack' = <<>> /\ err' = e

Begin(op, arg) ==
  cur' = [op |-> op, arg |-> arg, map0 |-> commandHandleMap,
          addons0 |-> addons, disposed0 |-> disposed]

(***************************************************************************)
(* TestRemoteConnector: the event table.                                   *)
(***************************************************************************)
\* addEventListener(type, listener): this.on(type, listener)
AddEventListener(ls, type) == ls \cup {type}

\* removeEventListener(type, listener): this.off(type, listener)
RemoveEventListener(ls, type) == ls \ {type}

(***************************************************************************)
(* Remote.dispose                                                          *)
(***************************************************************************)
DisposedListenersMutantKeepsOpen(ls) ==
  RemoveEventListener(RemoveEventListener(RemoveEventListener(ls, "error"), "message"), "close")

\* the four removeEventListener calls
DisposedListeners(ls) ==
  RemoveEventListener(
    RemoveEventListener(RemoveEventListener(RemoveEventListener(ls, "error"), "message"), "close"),
    "open")

DisposedMapMutantKeeps(m) == m

\* this._commandHandleMap.clear()
DisposedMap(m) == EmptyMap

DisposedAddonsMutantKeeps(list) == list

\* this._addons.length = 0
DisposedAddons(list) == <<>>

Dispose ==
  /\ listeners' = DisposedListeners(listeners)
  /\ addons' = DisposedAddons(addons)
  /\ commandHandleMap' = DisposedMap(commandHandleMap)
  /\ disposed' = TRUE

(***************************************************************************)
(* User code: the body of a handler or of a lifecycle callback, invoked    *)
(* by the loop of frame f; evs are the log entries of the invocation.      *)
(***************************************************************************)
\* JSON.parse(data)
JsonParse(data) ==
  IF data.kind = "invalid" THEN [ok |-> FALSE, isArray |-> FALSE, value |-> <<>>]
  ELSE IF data.kind = "array" THEN [ok |-> TRUE, isArray |-> TRUE, value |-> data.elems]
  ELSE [ok |-> TRUE, isArray |-> FALSE, value |-> data.elems[1]]

\* a sequence back to front (used by a mutant of CmdArray)
Reverse(s) == [j \in 1..Len(s) |-> s[Len(s) + 1 - j]]

CmdArrayMutantReversed(obj) == IF obj.isArray THEN Reverse(obj.value) ELSE <<obj.value>>

\* if (obj instanceof Array) cmdArray.push(...obj) else cmdArray.push(obj)
CmdArray(obj) == IF obj.isArray THEN obj.value ELSE <<obj.value>>

MessageFrame(data) == Frame("message", NextId, CmdArray(JsonParse(data)))

UserReturns(f, b, evs) ==
  /\ b.act = "return" \/ (b.act = "sendFromClient" /\ "message" \notin listeners)
  /\ stack' = Advance(f)
  /\ log' = evs \o <<ReturnEv(f)>>
  /\ UNCHANGED <<commandHandleMap, addons, listeners, err, disposed>>

UserThrowsMutantCaught(f, b, evs) ==
  /\ b.act = "throw"
  /\ stack' = Advance(f)
  /\ log' = evs \o <<ReturnEv(f)>>
  /\ UNCHANGED <<commandHandleMap, addons, listeners, err, disposed>>

UserThrows(f, b, evs) ==
  /\ b.act = "throw"
  /\ Unwind(UserError)
  /\ log' = evs
  /\ UNCHANGED <<commandHandleMap, addons, listeners, disposed>>

UserDisposes(f, b, evs) ==
  /\ b.act = "dispose"
  /\ Dispose
  /\ stack' = Advance(f)
  /\ log' = evs \o <<DisposeEv, ReturnEv(f)>>
  /\ UNCHANGED err

UserAddsAddon(f, b, evs) ==
  /\ b.act = "addAddon"
  /\ Len(addons) < MaxAddons
  /\ LET g == Frame("addAddon", NextId, <<b.addon>>)
     IN stack' = Enter(f, g) /\ log' = Append(evs, EnterEv(g))
  /\ UNCHANGED <<commandHandleMap, addons, listeners, err, disposed>>

UserSendsInvalid(f, b, evs) ==
  /\ b.act = "sendFromClient"
  /\ "message" \in listeners
  /\ ~JsonParse(b.data).ok
  /\ Unwind(SyntaxError)
  /\ log' = evs
  /\ UNCHANGED <<commandHandleMap, addons, listeners, disposed>>

UserSendsMutantDeferred(f, b, evs) ==
  /\ b.act = "sendFromClient"
  /\ "message" \in listeners
  /\ JsonParse(b.data).ok
  /\ LET g == MessageFrame(b.data)
     IN stack' = <<g>> \o Advance(f) /\ log' = evs \o <<EnterEv(g), ReturnEv(f)>>
  /\ UNCHANGED <<commandHandleMap, addons, listeners, err, disposed>>

UserSends(f, b, evs) ==
  /\ b.act = "sendFromClient"
  /\ "message" \in listeners
  /\ JsonParse(b.data).ok
  /\ LET g == MessageFrame(b.data)
     IN stack' = Enter(f, g) /\ log' = Append(evs, EnterEv(g))
  /\ UNCHANGED <<commandHandleMap, addons, listeners, err, disposed>>

RunUserAct(f, b, evs) ==
  \/ UserReturns(f, b, evs)
  \/ UserThrows(f, b, evs)
  \/ UserDisposes(f, b, evs)
  \/ UserAddsAddon(f, b, evs)
  \/ UserSendsInvalid(f, b, evs)
  \/ UserSends(f, b, evs)

IsReentry(x) ==
  x.e \in {"call", "callback"} /\ x.does \in {"dispose", "addAddon", "sendFromClient"}

Reentries == Len(SelectSeq(log, IsReentry))

RunUserCode(f, b, evs) ==
  /\ b.act \in {"return", "throw"} \/ Reentries < MaxReentries
  /\ RunUserAct(f, b, evs)

(***************************************************************************)
(* Remote.addAddon                                                         *)
(***************************************************************************)
PushAddonMutantFront(list, ad) == <<ad>> \o list

\* this._addons.push(addon)
PushAddon(list, ad) == Append(list, ad)

\* the loop over the addons is over: addAddon returns
AddAddonReturns(f) ==
  /\ f.hi = 0 /\ f.i > Len(f.items)
  /\ Leave
  /\ UNCHANGED <<commandHandleMap, addons, listeners, err, disposed>>

AddAddonPushMutantNotifies(f) ==
  /\ f.hi = 0 /\ f.i <= Len(f.items)
  /\ addons' = PushAddon(addons, f.items[f.i])
  /\ stack' = SetTop([f EXCEPT !.hi = 1])
  /\ log' = log \o <<PushEv(f, f.items[f.i]),
                     CallbackEv(f, f.items[f.i], "handleOpen", Act("return", "", InvalidText))>>
  /\ UNCHANGED <<commandHandleMap, listeners, err, disposed>>

\* this._addons.push(addon); const cmdHandlers = addon.use(this)
AddAddonPush(f) ==
  /\ f.hi = 0 /\ f.i <= Len(f.items)
  /\ addons' = PushAddon(addons, f.items[f.i])
  /\ stack' = SetTop([f EXCEPT !.hi = 1])
  /\ log' = Append(log, PushEv(f, f.items[f.i]))
  /\ UNCHANGED <<commandHandleMap, listeners, err, disposed>>

\* the loop over cmdHandlers is over: the next addon
AddAddonNextAddon(f) ==
  /\ f.hi >= 1 /\ f.hi > Len(AddonUse(f.items[f.i]))
  /\ stack' = Advance(f)
  /\ UNCHANGED <<commandHandleMap, addons, listeners, log, err, disposed>>

RegisterHandlerMutantOverwrites(f, h) ==
  /\ commandHandleMap' = MapSet(commandHandleMap, h.for, h)
  /\ stack' = SetTop([f EXCEPT !.hi = f.hi + 1])
  /\ log' = Append(log, RegisterEv(f, h, MapHas(commandHandleMap, h.for), TRUE))
  /\ UNCHANGED <<addons, listeners, err, disposed>>

RegisterHandlerMutantRollsBack(f, h) ==
  IF ~MapHas(commandHandleMap, h.for)
  THEN /\ commandHandleMap' = MapSet(commandHandleMap, h.for, h)
       /\ stack' = SetTop([f EXCEPT !.hi = f.hi + 1])
       /\ log' = Append(log, RegisterEv(f, h, FALSE, TRUE))
       /\ UNCHANGED <<addons, listeners, err, disposed>>
  ELSE /\ Unwind(DuplicateHandlerError(h.for))
       /\ log' = Append(log, RegisterEv(f, h, TRUE, FALSE))
       /\ commandHandleMap' = cur.map0
       /\ addons' = cur.addons0
       /\ UNCHANGED <<listeners, disposed>>

RegisterHandlerMutantPopsAddon(f, h) ==
  IF ~MapHas(commandHandleMap, h.for)
  THEN /\ commandHandleMap' = MapSet(commandHandleMap, h.for, h)
       /\ stack' = SetTop([f EXCEPT !.hi = f.hi + 1])
       /\ log' = Append(log, RegisterEv(f, h, FALSE, TRUE))
       /\ UNCHANGED <<addons, listeners, err, disposed>>
  ELSE /\ Unwind(DuplicateHandlerError(h.for))
       /\ log' = Append(log, RegisterEv(f, h, TRUE, FALSE))
       /\ addons' = SubSeq(addons, 1, Len(addons) - 1)
       /\ UNCHANGED <<commandHandleMap, listeners, disposed>>

\* if (!map.has(handler.for)) map.set(handler.for, handler) else throw
RegisterHandler(f, h) ==
  IF ~MapHas(commandHandleMap, h.for)
  THEN /\ commandHandleMap' = MapSet(commandHandleMap, h.for, h)
       /\ stack' = SetTop([f EXCEPT !.hi = f.hi + 1])
       /\ log' = Append(log, RegisterEv(f, h, FALSE, TRUE))
       /\ UNCHANGED <<addons, listeners, err, disposed>>
  ELSE /\ Unwind(DuplicateHandlerError(h.for))
       /\ log' = Append(log, RegisterEv(f, h, TRUE, FALSE))
       /\ UNCHANGED <<commandHandleMap, addons, listeners, disposed>>

AddAddonRegister(f) ==
  /\ f.hi >= 1 /\ f.hi <= Len(AddonUse(f.items[f.i]))
  /\ RegisterHandler(f, AddonUse(f.items[f.i])[f.hi])

AddAddonStep ==
  /\ ~Idle /\ Top.k = "addAddon"
  /\ \/ AddAddonReturns(Top)
     \/ AddAddonPush(Top)
     \/ AddAddonNextAddon(Top)
     \/ AddAddonRegister(Top)
  /\ UNCHANGED <<cur, visitVars>>

(***************************************************************************)
(* Remote._handleMessage                                                   *)
(***************************************************************************)
\* the loop over cmdArray is over: _handleMessage returns
MessageReturns(f) ==
  /\ f.i > Len(f.items)
  /\ Leave
  /\ UNCHANGED <<commandHandleMap, addons, listeners, err, disposed>>

MessageUnknownMutantSkips(f, cmd) ==
  /\ stack' = Advance(f)
  /\ log' = Append(log, CommandEv(f, cmd, NoHandler))
  /\ UNCHANGED <<commandHandleMap, addons, listeners, err, disposed>>

\* else throw new Error(`...${cmd.type}`)
MessageUnknown(f, cmd) ==
  /\ Unwind(UnknownCommandTypeError(cmd.type))
  /\ log' = Append(log, CommandEv(f, cmd, NoHandler))
  /\ UNCHANGED <<commandHandleMap, addons, listeners, disposed>>

\* JSON.stringify of a Reply
ReplyText(replyId, data) == [replyId |-> replyId, data |-> data]

\* typeof result === "object" ? JSON.stringify(result) : "" + result
ResultText(result) ==
  IF result.k \in {"object", "null"} THEN "JSON(" \o result.v \o ")" ELSE ToString(result)

\* the handler of the built-in addon: visitObject(globalThis, cmd), then reply;
\* cmd is the parsed command, a plain object
VisitGlobalHandle(f, cmd, evs) ==
  LET result == VisitObject(GlobalThis, [iterable |-> FALSE, items |-> cmd.keys])
  IN IF result.ok
     THEN /\ stack' = Advance(f)
          /\ log' = evs \o <<SendEv(ReplyText(cmd.replyId, ResultText(result.val))), ReturnEv(f)>>
          /\ UNCHANGED <<commandHandleMap, addons, listeners, err, disposed>>
     ELSE /\ Unwind(TypeError)
          /\ log' = evs
          /\ UNCHANGED <<commandHandleMap, addons, listeners, disposed>>

HandlerArgMutantTypeOnly(cmd) == Cmd(cmd.type, "", <<>>)

\* the argument of handle(cmd)
HandlerArg(cmd) == cmd

\* this._commandHandleMap.get(cmd.type)!.handle(cmd)
MessageHandle(f, cmd) ==
  LET h == commandHandleMap[cmd.type]
      registered == CommandEv(f, cmd, h)
  IN IF h.addon = "VG"
     THEN VisitGlobalHandle(f, HandlerArg(cmd),
                            log \o <<registered, CallEv(f, h, HandlerArg(cmd), Act("builtin", "", InvalidText))>>)
     ELSE \E b \in UserActs :
            RunUserCode(f, b, log \o <<registered, CallEv(f, h, HandlerArg(cmd), b)>>)

MessageCommand(f) ==
  /\ f.i <= Len(f.items)
  /\ IF MapHas(commandHandleMap, f.items[f.i].type)
     THEN MessageHandle(f, f.items[f.i])
     ELSE MessageUnknown(f, f.items[f.i])

MessageStep ==
  /\ ~Idle /\ Top.k = "message" /\ ~Top.busy
  /\ \/ MessageReturns(Top)
     \/ MessageCommand(Top)
  /\ UNCHANGED <<cur, visitVars>>

(***************************************************************************)
(* Remote._handleOpen / _handleClose / _handleError                        *)
(***************************************************************************)
FanReturnsMutantSnapshot(f) ==
  /\ f.i > Len(cur.addons0)
  /\ Leave
  /\ UNCHANGED <<commandHandleMap, addons, listeners, err, disposed>>

\* the loop over this._addons is over (the array is read as it is now)
FanReturns(f) ==
  /\ f.i > Len(addons)
  /\ Leave
  /\ UNCHANGED <<commandHandleMap, addons, listeners, err, disposed>>

\* if (addon.handleOpen) is false: nothing to call
FanSkips(f) ==
  /\ f.i <= Len(addons)
  /\ ~Defines(addons[f.i], CallbackName(f.k))
  /\ stack' = Advance(f)
  /\ UNCHANGED <<commandHandleMap, addons, listeners, log, err, disposed>>

\* addon.handleOpen(arg)
FanCalls(f) ==
  /\ f.i <= Len(addons)
  /\ Defines(addons[f.i], CallbackName(f.k))
  /\ \E b \in UserActs :
       RunUserCode(f, b, Append(log, CallbackEv(f, addons[f.i], CallbackName(f.k), b)))

FanStep ==
  /\ ~Idle /\ Top.k \in LifecycleEvents /\ ~Top.busy
  /\ \/ FanReturns(Top)
     \/ FanSkips(Top)
     \/ FanCalls(Top)
  /\ UNCHANGED <<cur, visitVars>>

(***************************************************************************)
(* Calls from outside: the application and the transport.                  *)
(***************************************************************************)
CallAddAddon(args) ==
  /\ Idle
  /\ Len(addons) + Len(args) <= MaxAddons
  /\ Begin("addAddon", args)
  /\ LET g == Frame("addAddon", 1, args)
     IN stack' = <<g>> /\ log' = <<EnterEv(g)>>
  /\ err' = NoError
  /\ UNCHANGED <<commandHandleMap, addons, listeners, disposed, visitVars>>

CallDispose ==
  /\ Idle
  /\ Begin("dispose", <<>>)
  /\ Dispose
  /\ log' = <<DisposeEv>>
  /\ err' = NoError
  /\ UNCHANGED <<stack, visitVars>>

\* TestRemoteConnector.open / close, and an error event: emit(ev) calls the
\* listener of ev, if there is one
ConnectorEmit(ev) ==
  /\ Idle
  /\ Begin(ev, <<>>)
  /\ IF ev \in listeners
     THEN LET g == Frame(ev, 1, <<>>)
          IN stack' = <<g>> /\ log' = <<EnterEv(g)>>
     ELSE stack' = <<>> /\ log' = <<>>
  /\ err' = NoError
  /\ UNCHANGED <<commandHandleMap, addons, listeners, disposed, visitVars>>

\* TestRemoteConnector.sendFromClient(data): emit("message", data)
SendFromClient(data) ==
  /\ Idle
  /\ Begin("message", data)
  /\ IF "message" \notin listeners
     THEN stack' = <<>> /\ log' = <<>> /\ err' = NoError
     ELSE IF ~JsonParse(data).ok
     THEN stack' = <<>> /\ log' = <<>> /\ err' = SyntaxError
     ELSE LET g == Frame("message", 1, CmdArray(JsonParse(data)))
          IN stack' = <<g>> /\ log' = <<EnterEv(g)>> /\ err' = NoError
  /\ UNCHANGED <<commandHandleMap, addons, listeners, disposed, visitVars>>

\* an IRemoteMessage
Message(subject, data) == [subject |-> subject, data |-> data]

\* JSON.stringify(msg): the members in the order the object lists them
MessageText(msg) == <<<<"subject", msg.subject>>, <<"data", msg.data>>>>

\* the messages and the reasons the application sends
Messages == {Message("error", "boom"), Message("note", "boom")}

Reasons == {"boom", "late"}

\* TestRemoteConnector.send(data): the text is parsed and emitted under its
\* `type` member; a message has none, so no listener of the dispatcher runs
SentType(data) ==
  IF \E n \in DOMAIN data : data[n][1] = "type"
  THEN (CHOOSE n \in DOMAIN data : data[n][1] = "type")
  ELSE 0

\* sendMessage(msg): this.connector.send(JSON.stringify(msg))
SendMessage(msg) ==
  /\ SentType(MessageText(msg)) = 0
  /\ log' = <<SendEv(MessageText(msg))>>
  /\ stack' = <<>>
  /\ err' = NoError
  /\ UNCHANGED <<commandHandleMap, addons, listeners, disposed, visitVars>>

CallSendMessage(msg) ==
  /\ Idle
  /\ Begin("sendMessage", msg)
  /\ SendMessage(msg)

ErrorMessageMutantSwapped(reason) == Message(reason, "error")

\* the message sendError builds: {subject: "error", data: reason}
ErrorMessage(reason) == Message("error", reason)

\* sendError(reason): this.sendMessage({subject: "error", data: reason})
CallSendError(reason) ==
  /\ Idle
  /\ Begin("sendError", reason)
  /\ SendMessage(ErrorMessage(reason))

(***************************************************************************)
(* The dispatcher: from the constructor's addAddon call onwards.           *)
(***************************************************************************)
\* new Remote(connector), up to its call this.addAddon(new VisitGlobalRemoteAddon())
InitRemote ==
  /\ commandHandleMap = EmptyMap
  /\ addons = <<>>
  /\ listeners =
       AddEventListener(
         AddEventListener(AddEventListener(AddEventListener({}, "message"), "open"), "close"),
         "error")
  /\ stack = <<Frame("addAddon", 1, <<"VG">>)>>
  /\ log = <<EnterEv(Frame("addAddon", 1, <<"VG">>))>>
  /\ err = NoError
  /\ cur = [op |-> "constructor", arg |-> <<"VG">>, map0 |-> EmptyMap,
            addons0 |-> <<>>, disposed0 |-> FALSE]
  /\ disposed = FALSE

NoVisit == [obj |-> Undefined, args |-> [iterable |-> TRUE, items |-> <<>>]]

Pending == [ok |-> FALSE, val |-> Str("pending")]

Init ==
  /\ InitRemote
  /\ vin = NoVisit
  /\ vout = Pending

Next ==
  \/ AddAddonStep
  \/ MessageStep
  \/ FanStep
  \/ \E args \in SeqsUpTo(UserAddons, MaxArgs) : CallAddAddon(args)
  \/ CallDispose
  \/ \E ev \in LifecycleEvents : ConnectorEmit(ev)
  \/ \E data \in Payloads : SendFromClient(data)
  \/ \E msg \in Messages : CallSendMessage(msg)
  \/ \E reason \in Reasons : CallSendError(reason)

Spec == Init /\ [][Next]_vars

(***************************************************************************)
(* visitObject on its own: the arguments are drawn, the call is made.      *)
(***************************************************************************)
VisitRoots == {Undefined, Null, Obj("root"), Obj("ob"), Str("value")}

VisitSteps ==
  {PropStep(n) : n \in {"a", "b", "c", "v", "n", "missing"}}
    \cup {CallStep("c", <<Str("x"), Str("y")>>), CallStepNoArgs("c"),
          CallStepNoArgs("missing"), CallStepNoArgs("v")}

VisitInputs ==
  {[obj |-> o, args |-> [iterable |-> TRUE, items |-> p]] :
     o \in VisitRoots, p \in SeqsUpTo(VisitSteps, MaxPath)}
    \cup {[obj |-> o, args |-> [iterable |-> FALSE, items |-> <<PropStep("a")>>]] : o \in VisitRoots}

InitVisit ==
  /\ InitRemote
  /\ vin \in VisitInputs
  /\ vout = Pending

VisitCall ==
  /\ vout = Pending
  /\ vout' = VisitObject(vin.obj, vin.args)
  /\ UNCHANGED <<vin, remoteVars>>

NextVisit == VisitCall

SpecVisit == InitVisit /\ [][NextVisit]_vars

(***************************************************************************)
(* Properties.                                                             *)
(***************************************************************************)
\* the constructor has returned
Constructed == ~(cur.op = "constructor" /\ ~Idle)

LogIdx(kind) == {j \in DOMAIN log : log[j].e = kind}

\* a refused registration (one whose tag the registry already held)
C1_DuplicateFails ==
  \A j \in LogIdx("register") :
    log[j].present =>
      /\ ~log[j].ok
      /\ j = Len(log)
      /\ Idle
      /\ err = DuplicateHandlerError(log[j].h.for)

\* an entry is never replaced; a dispatch invokes the entry of the type
C1_FirstStays ==
  /\ \A t \in Tags :
       MapHas(commandHandleMap, t) /\ MapHas(commandHandleMap', t)
         => commandHandleMap'[t] = commandHandleMap[t]
  /\ \A j \in DOMAIN log' :
       (j > Len(log) /\ log'[j].e = "call") => log'[j].h = commandHandleMap[log'[j].cmd.type]

\* C1: a registration whose tag is already in the registry fails with the
\* duplicate-handler error for that tag and ends the call; an entry of the
\* registry, once set, is never replaced by another handler (it can only be
\* cleared); and a dispatch invokes the handler the registry holds for the
\* command's type, which is therefore the first one registered.
C1_Uniqueness == [](C1_DuplicateFails) /\ [][C1_FirstStays]_vars

\* C1 witness: within one addAddon call a tag was registered and a later
\* handler for the same tag was refused
C1_Witness ==
  /\ cur.op = "addAddon" /\ Idle
  /\ err = DuplicateHandlerError("a")
  /\ \E i \in LogIdx("register") : log[i].ok /\ log[i].h.for = "a" /\ i < Len(log)
  /\ commandHandleMap["a"] = Handler("A", 1)

\* the handler invocations the dispatch loop of frame f has made
CallsOf(f) == {j \in LogIdx("call") : log[j].frame = f}

\* C2: a single-command payload {type: T, ...} that reaches the dispatcher
\* while T has a registered handler invokes that handler, once, with the
\* whole command object; its dispatch invokes no other handler.
C2_Routing ==
  (/\ cur.op = "message" /\ ~cur.disposed0
   /\ cur.arg.kind = "object"
   /\ MapHas(cur.map0, cur.arg.elems[1].type)
   /\ Len(log) > 1)
    => /\ Cardinality(CallsOf(1)) = 1
       /\ \A j \in CallsOf(1) :
            /\ log[j].h = cur.map0[cur.arg.elems[1].type]
            /\ log[j].cmd = cur.arg.elems[1]
            /\ log[j].idx = 1

C2_Witness ==
  /\ cur.op = "message" /\ ~cur.disposed0 /\ Idle /\ err = NoError
  /\ cur.arg = ObjectText(Cmd("b", "r2", <<>>))
  /\ \E j \in CallsOf(1) : log[j].h = Handler("B", 1) /\ log[j].cmd.replyId = "r2"

\* the commands of the payload the dispatch of frame f works on
PayloadOf(f) ==
  IF f = 1 THEN cur.arg.elems
  ELSE LET j == CHOOSE j \in LogIdx("enter") : log[j].frame = f IN log[j].items

MessageFrames ==
  {log[j].frame : j \in {j \in LogIdx("enter") : log[j].k = "message"}}

\* C3: the handlers of an array payload are invoked in array order, one at
\* a time: the k-th invocation of a dispatch is for the k-th command, and
\* it comes after the return of the invocation for the command before it.
C3_BatchOrder ==
  \A f \in MessageFrames :
    \A j \in CallsOf(f) :
      /\ log[j].idx \in 1..Len(PayloadOf(f))
      /\ log[j].cmd = PayloadOf(f)[log[j].idx]
      /\ Cardinality({j2 \in CallsOf(f) : j2 < j}) = log[j].idx - 1
      /\ \A j2 \in CallsOf(f) :
           j2 < j =>
             /\ log[j2].idx < log[j].idx
             /\ \E r \in LogIdx("return") :
                  /\ j2 < r /\ r < j
                  /\ log[r].frame = f /\ log[r].idx = log[j2].idx

C3_Witness ==
  /\ cur.op = "message" /\ Idle /\ err = NoError
  /\ cur.arg = ArrayText(<<Cmd("b", "r2", <<>>), Cmd("a", "r1", <<>>)>>)
  /\ Cardinality(CallsOf(1)) = 2

\* C4: a command whose type has no handler when the loop reaches it ends
\* the dispatch with the unknown-command-type error naming the type: no
\* handler is invoked for it, nothing of the batch after it is processed,
\* and the commands before it have each been handled.
C4_UnknownType ==
  \A j \in LogIdx("command") :
    log[j].registered = NoHandler =>
      /\ j = Len(log)
      /\ Idle
      /\ err = UnknownCommandTypeError(log[j].cmd.type)
      /\ \A i \in 1..(log[j].idx - 1) :
           \E c \in CallsOf(log[j].frame) : log[c].idx = i

C4_Witness ==
  /\ cur.op = "message" /\ Idle
  /\ cur.arg = ArrayText(<<Cmd("a", "r1", <<>>), Cmd("zz", "r3", <<>>)>>)
  /\ err = UnknownCommandTypeError("zz")
  /\ Cardinality(CallsOf(1)) = 1

IsCallback(x) == x.e = "callback"

Callbacks == SelectSeq(log, IsCallback)

\* the optional method of an addon that answers a lifecycle event
MethodFor(ev) == IF ev = "open" THEN "handleOpen" ELSE IF ev = "close" THEN "handleClose" ELSE "handleError"

\* a completed fan-out whose callbacks all returned
C5_FanOut ==
  (/\ cur.op \in LifecycleEvents /\ ~cur.disposed0 /\ Idle
   /\ \A n \in DOMAIN Callbacks : Callbacks[n].does = "return")
    => LET has == {p \in DOMAIN addons : Defines(addons[p], MethodFor(cur.op))}
       IN /\ addons = cur.addons0
          /\ Len(Callbacks) = Cardinality(has)
          /\ \A n \in DOMAIN Callbacks :
               /\ Callbacks[n].idx \in has
               /\ Callbacks[n].addon = addons[Callbacks[n].idx]
               /\ Callbacks[n].method = MethodFor(cur.op)
               /\ \A m \in DOMAIN Callbacks : m < n => Callbacks[m].idx < Callbacks[n].idx

\* the addon list changes only by an append or by being emptied
C5_Appended ==
  addons' # addons =>
    \/ addons' = <<>>
    \/ \E ad \in AddonIds : addons' = Append(addons, ad)

\* C5: a lifecycle event whose callbacks all return fans out to every
\* installed addon that defines the matching callback, once each, in the
\* order of the addon list, skipping the addons that do not define it; and
\* the addon list is in installation order (an addon is only ever appended).
C5_FanOutOrder == [](C5_FanOut) /\ [][C5_Appended]_vars

C5_Witness ==
  /\ cur.op = "close" /\ ~cur.disposed0 /\ Idle /\ err = NoError
  /\ addons = <<"VG", "A", "P">>
  /\ Len(Callbacks) = 2
  /\ Callbacks[1].addon = "A" /\ Callbacks[2].addon = "P"

\* C6: once dispose() has been called the dispatcher listens to nothing
\* any more, and an event the connector fires from then on invokes no
\* handler and no lifecycle callback, whatever was installed since.
C6_DisposedTerminal ==
  /\ disposed => listeners = {}
  /\ (cur.disposed0 /\ cur.op \in Events)
       => Idle /\ LogIdx("call") = {} /\ LogIdx("callback") = {}

C6_Witness ==
  /\ cur.disposed0 /\ cur.op = "open" /\ Idle
  /\ \E p \in DOMAIN addons : Defines(addons[p], "handleOpen")

\* C7: after a dispose(), until something is installed again, the addon
\* list and the registry are empty; an addAddon that starts from there
\* registers every tag, "visit-global" too, and can only be refused a tag
\* that it has itself registered before in the same call.
C7_DisposeClears ==
  /\ \A j \in LogIdx("dispose") :
       (\A j2 \in DOMAIN log : j2 > j => log[j2].e \notin {"push", "register"})
         => addons = <<>> /\ commandHandleMap = EmptyMap
  /\ (cur.op = "dispose" /\ Idle) => addons = <<>> /\ commandHandleMap = EmptyMap
  /\ (cur.op = "addAddon" /\ cur.disposed0 /\ cur.addons0 = <<>>)
       => \A j \in LogIdx("register") :
            ~log[j].ok =>
              \E i \in LogIdx("register") : i < j /\ log[i].ok /\ log[i].h.for = log[j].h.for

C7_Witness ==
  /\ cur.op = "addAddon" /\ cur.disposed0 /\ cur.addons0 = <<>> /\ Idle
  /\ err = NoError
  /\ commandHandleMap["visit-global"] = Handler("P", 2)
  /\ commandHandleMap["a"] = Handler("A", 1)

\* C8: from the return of the constructor until dispose() is called the
\* registry holds the built-in handler for "visit-global" and the built-in
\* addon is the first of the addon list; every other handler offered for
\* "visit-global" in that time is refused as a duplicate.
C8_BuiltIn ==
  /\ (Constructed /\ ~disposed)
       => /\ commandHandleMap["visit-global"] = Handler("VG", 1)
          /\ Len(addons) >= 1
          /\ addons[1] = "VG"
  /\ ~disposed
       => \A j \in LogIdx("register") :
            (log[j].h.for = "visit-global" /\ log[j].h.addon # "VG")
              => ~log[j].ok /\ err = DuplicateHandlerError("visit-global")

C8_Witness ==
  /\ ~disposed /\ cur.op = "addAddon" /\ Idle
  /\ err = DuplicateHandlerError("visit-global")
  /\ addons = <<"VG", "A", "P">>

(***************************************************************************)
(* Properties of visitObject (checked under SpecVisit).                    *)
(***************************************************************************)
VisitDone == vout # Pending

\* the walk of the path reaches undefined or null: at the root, or after a
\* step (the last one or one before it)
RECURSIVE NullishOnPath(_, _)
NullishOnPath(val, steps) ==
  \/ IsNullish(val)
  \/ /\ steps # <<>>
     /\ LET r == VisitStep(val, Head(steps))
        IN r.ok /\ NullishOnPath(r.val, Tail(steps))

\* C9 as claimed: whenever the root or the value after any step of the path
\* is undefined or null, visitObject returns "" and throws nothing.
C9_NullishGivesEmpty ==
  (VisitDone /\ vin.args.iterable /\ NullishOnPath(vin.obj, vin.args.items))
    => vout = Return(Str(""))

Front(s) == SubSeq(s, 1, Len(s) - 1)

Last(s) == s[Len(s)]

\* C10: the steps are resolved in order, each from the value the steps
\* before it reached: a string step reads the property of that name, a
\* {name, args?} step calls the method of that name with the listed
\* arguments (none when args is absent) and that value as `this`; when
\* every value on the way is defined, the result is the value the last
\* step reached.
C10_StepByStep ==
  (VisitDone /\ vin.args.iterable) =>
    LET path == vin.args.items
    IN /\ path = <<>> => vout = Return(Coalesce(vin.obj))
       /\ path # <<>> =>
            LET before == VisitLoop(Return(vin.obj), Front(path))
                step == Last(path)
                props == HeapProps(before.val.v)
                member == IF before.val.k = "object" /\ step.name \in DOMAIN props
                          THEN props[step.name] ELSE Undefined
                thisProp == IF before.val.k = "object" /\ "prop" \in DOMAIN props
                            THEN props["prop"] ELSE Undefined
                actual == IF step.hasArgs THEN step.args ELSE <<>>
            IN (before.ok /\ ~IsNullish(before.val)) =>
                 IF ~step.call THEN vout = Return(Coalesce(member))
                 ELSE IF member.k # "function" THEN ~vout.ok
                 ELSE vout = Return(Str(ToString(ArgAt(actual, 1)) \o " "
                                        \o ToString(ArgAt(actual, 2)) \o " "
                                        \o ToString(thisProp)))
       /\ (vin.obj = Obj("root") /\ path = <<PropStep("a"), PropStep("b"), PropStep("v")>>)
            => vout = Return(Str("value"))
       /\ (vin.obj = Obj("root")
           /\ path = <<PropStep("a"), PropStep("b"), CallStep("c", <<Str("x"), Str("y")>>)>>)
            => vout = Return(Str("x y z"))

C10_Witness ==
  /\ vin.obj = Obj("root")
  /\ vin.args.items = <<PropStep("a"), PropStep("b"), CallStep("c", <<Str("x"), Str("y")>>)>>
  /\ vout = Return(Str("x y z"))

\* the payloads handed to connector.send during the call
Sends == LogIdx("send")

\* C11: with only the built-in addon installed, an inbound "visit-global"
\* command with replyId r and a visit path makes the dispatcher hand exactly
\* one reply to connector.send, with replyId r and the serialized value the
\* path resolves to from the global object.
C11_VisitGlobalReplies ==
  (/\ cur.op = "message" /\ Idle /\ ~cur.disposed0
   /\ cur.addons0 = <<"VG">>
   /\ cur.arg.kind = "object"
   /\ cur.arg.elems[1].type = "visit-global")
    => LET cmd == cur.arg.elems[1]
           resolved == VisitLoop(Return(GlobalThis), cmd.keys)
       IN /\ Cardinality(Sends) = 1
          /\ \A j \in Sends :
               log[j].data = ReplyText(cmd.replyId, ResultText(Coalesce(resolved.val)))

\* C12: sendError(reason) does what sendMessage({subject: "error", data:
\* reason}) does: connector.send receives exactly one payload, the
\* serialization of {"subject": "error", "data": reason} (the very payload
\* sendMessage hands over for that message), nothing is thrown, and the
\* registry and the addon list are unchanged.
C12_SendError ==
  /\ cur.op = "sendError" =>
       /\ log = <<SendEv(<<<<"subject", "error">>, <<"data", cur.arg>>>>)>>
       /\ Idle /\ err = NoError
       /\ commandHandleMap = cur.map0 /\ addons = cur.addons0
  /\ (cur.op = "sendMessage" /\ cur.arg.subject = "error") =>
       /\ log = <<SendEv(<<<<"subject", "error">>, <<"data", cur.arg.data>>>>)>>
       /\ Idle /\ err = NoError
       /\ commandHandleMap = cur.map0 /\ addons = cur.addons0

C12_Witness ==
  /\ cur.op = "sendError" /\ cur.arg = "late"
  /\ Len(log) = 1 /\ log[1].e = "send"
  /\ Len(addons) = 2

\* the step in which a command handler throws
C13_HandlerThrows ==
  /\ Len(log') = Len(log) + 2
  /\ log'[Len(log')].e = "call"
  /\ log'[Len(log')].does \in {"throw", "builtin"}

\* a handler that threw made the last invocation of the call: the exception
\* has left the dispatcher
C13_NothingAfter ==
  \A j \in LogIdx("call") :
    /\ log[j].does = "throw" => (j = Len(log) /\ Idle /\ err = UserError)
    /\ (log[j].does = "builtin" /\ j = Len(log)) => (Idle /\ err = TypeError)

\* C13: an exception thrown by a command handler during a batch is not
\* caught: it leaves the dispatcher, and no handler is invoked for the
\* commands after it; what the handlers before it did stays done, and the
\* throw itself changes neither the registry nor the addon list (nor the
\* listeners).
C13_ThrowAborts ==
  /\ [](C13_NothingAfter)
  /\ [][C13_HandlerThrows =>
          /\ commandHandleMap' = commandHandleMap
          /\ addons' = addons
          /\ listeners' = listeners
          /\ SubSeq(log', 1, Len(log)) = log]_vars

\* C13 witness: the first handler of a batch of two installed an addon,
\* the second threw
C13_Witness ==
  /\ cur.op = "message" /\ Idle /\ err = UserError
  /\ Len(cur.arg.elems) = 2
  /\ \E j \in CallsOf(1) : log[j].idx = 1 /\ log[j].does = "addAddon"
  /\ log[Len(log)].e = "call" /\ log[Len(log)].idx = 2 /\ log[Len(log)].frame = 1
  /\ Len(addons) = Len(cur.addons0) + 1
  /\ commandHandleMap # cur.map0

IsPush(x) == x.e = "push"

PushedAddon(x) == x.addon

RECURSIVE AddonsOf(_, _)
AddonsOf(s, i) == IF i > Len(s) THEN <<>> ELSE <<PushedAddon(s[i])>> \o AddonsOf(s, i + 1)

\* the addon list a fan-out has walked: the list the event found, followed
\* by the addons appended to it since
ListSeen == cur.addons0 \o AddonsOf(SelectSeq(log, IsPush), 1)

CallbackIdx == LogIdx("callback")

\* C14: when the callback of the addon at position k throws during the
\* fan-out of open, close or error, the exception leaves the dispatcher and
\* no later addon is notified of that event; every addon before k that
\* defines the callback has been notified exactly once, in order. Every
\* fan-out, whatever happened in the ones before it, starts from the first
\* addon of the list: a callback is only ever reached after the callbacks
\* of all positions before it.
C14_FanOutAborts ==
  cur.op \in LifecycleEvents =>
    \A j \in CallbackIdx :
      /\ log[j].does = "throw" => (j = Len(log) /\ Idle /\ err = UserError)
      /\ log[j].method = MethodFor(cur.op)
      /\ log[j].idx \in DOMAIN ListSeen
      /\ log[j].addon = ListSeen[log[j].idx]
      /\ \A p \in 1..(log[j].idx - 1) :
           Defines(ListSeen[p], MethodFor(cur.op)) =>
             /\ Cardinality({i \in CallbackIdx : log[i].idx = p}) = 1
             /\ \A i \in CallbackIdx : log[i].idx = p => (i < j /\ log[i].does # "throw")
      /\ Cardinality({i \in CallbackIdx : log[i].idx = log[j].idx}) = 1

\* C14 witness: the second addon was notified of open and returned, the
\* callback of the third threw
C14_Witness ==
  /\ cur.op = "open" /\ Idle /\ err = UserError
  /\ addons = <<"VG", "A", "B">>
  /\ Len(Callbacks) = 2
  /\ Callbacks[1].idx = 2 /\ Callbacks[1].does = "return"
  /\ Callbacks[2].idx = 3 /\ Callbacks[2].does = "throw"

\* the handlers an addAddon(args) call has registered when the j-th handler
\* of its n-th addon is refused: all of the addons before, and those before
\* j of the n-th
RegisteredBefore(args, n, j) ==
  UNION {{[for |-> AddonTags(args[i])[k], addon |-> args[i], idx |-> k] :
            k \in DOMAIN AddonTags(args[i])} : i \in 1..(n - 1)}
    \cup {[for |-> AddonTags(args[n])[k], addon |-> args[n], idx |-> k] : k \in 1..(j - 1)}

\* C15: addAddon fails fast and rolls nothing back. When the j-th handler
\* of the n-th addon of the argument list collides, the call ends with the
\* duplicate-handler error for that tag; the list holds the addons it held
\* plus the first n of the arguments (the later ones are not in it), and
\* the registry holds what it held plus every handler of the first n-1
\* addons and the handlers 1..j-1 of the n-th, and nothing else.
C15_FailFast ==
  (cur.op = "addAddon" /\ Idle /\ err # NoError) =>
    LET args == cur.arg
        n == Cardinality(LogIdx("push"))
        refused == log[Len(log)]
        done == RegisteredBefore(args, n, refused.h.idx)
    IN /\ refused.e = "register" /\ ~refused.ok
       /\ n \in 1..Len(args)
       /\ refused.h.addon = args[n]
       /\ refused.h.for = AddonTags(args[n])[refused.h.idx]
       /\ err = DuplicateHandlerError(refused.h.for)
       /\ addons = cur.addons0 \o SubSeq(args, 1, n)
       /\ \A t \in Tags :
            IF MapHas(cur.map0, t) THEN commandHandleMap[t] = cur.map0[t]
            ELSE IF \E h \in done : h.for = t
            THEN commandHandleMap[t] \in done /\ commandHandleMap[t].for = t
            ELSE commandHandleMap[t] = NoHandler

\* C15 witness: addAddon(P, A) on the fresh dispatcher: P's first handler is
\* registered, its second collides with the built-in one, A is not installed
C15_Witness ==
  /\ cur.op = "addAddon" /\ cur.arg = <<"P", "A">> /\ Idle
  /\ cur.addons0 = <<"VG">>
  /\ err = DuplicateHandlerError("visit-global")
  /\ addons = <<"VG", "P">>
  /\ commandHandleMap["b"] = Handler("P", 1)
  /\ commandHandleMap["a"] = NoHandler

\* C16 (as stated): handleOpen is invoked only on addons installed before
\* the fan-out of the open event began.
C16_OnlyInstalledBefore ==
  cur.op = "open" => \A j \in CallbackIdx : log[j].idx <= Len(cur.addons0)

\* C16 (amended): an addon gets no retroactive open notification. No call of
\* addAddon (nor any other call than the fan-out of a lifecycle event)
\* invokes a lifecycle callback; handleOpen is invoked only by the fan-out
\* of an open event, on the addons the list held when the event fired and
\* on the addons that a callback of that very fan-out (or code it called)
\* appended to the list before the loop reached their position.
C16_NoRetroactiveOpen ==
  /\ cur.op \notin LifecycleEvents => CallbackIdx = {}
  /\ \A j \in CallbackIdx :
       /\ log[j].method = "handleOpen" <=> cur.op = "open"
       /\ log[j].idx > Len(cur.addons0) =>
            LET pushedBefore == {i \in LogIdx("push") : i < j}
            IN /\ Cardinality(pushedBefore) >= log[j].idx - Len(cur.addons0)
               /\ \E c \in CallbackIdx :
                    c < j /\ log[c].does # "return" /\ \A i \in pushedBefore : c < i

\* C16 witness: B was installed by A's handleOpen during the fan-out of an
\* open event and was notified of that event
C16_Witness ==
  /\ cur.op = "open" /\ Idle /\ err = NoError
  /\ cur.addons0 = <<"VG", "A">>
  /\ addons = <<"VG", "A", "B">>
  /\ \E j \in CallbackIdx : log[j].idx = 3 /\ log[j].addon = "B" /\ log[j].method = "handleOpen"

\* the log entries made by a call frame
OfFrame(f) == {j \in DOMAIN log : log[j].e \notin {"dispose", "send"} /\ log[j].frame = f}

EnterOf(f) == CHOOSE j \in LogIdx("enter") : log[j].frame = f

\* C17: the commands of different inbound payloads are not interleaved. A
\* payload the connector delivers is dispatched alone: every handler
\* invocation of the call is for a command of that payload, unless a
\* handler or a callback has itself injected a payload. An injected payload
\* is dispatched nested and in full: whatever a dispatch (or fan-out) in
\* progress does after a payload was injected from inside it, it does after
\* every command of the injected payload has been handled.
C17_NoInterleaving ==
  /\ (cur.op = "message" /\ \A j \in LogIdx("call") : log[j].does # "sendFromClient")
       => \A j \in LogIdx("call") \cup LogIdx("command") :
            log[j].frame = 1 /\ log[j].cmd = cur.arg.elems[log[j].idx]
  /\ \A g \in MessageFrames \ {1} :
       /\ log[EnterOf(g) - 1].e \in {"call", "callback"}
       /\ log[EnterOf(g) - 1].does = "sendFromClient"
       /\ \A f \in 1..(g - 1) :
            \A j \in OfFrame(f) :
              j > EnterOf(g) =>
                /\ \A x \in OfFrame(g) : x < j
                /\ {log[x].idx : x \in CallsOf(g)} = DOMAIN PayloadOf(g)

\* C17 witness: the handler of the first command of a batch of two injected
\* a batch of two; both of its commands were handled before the second
\* command of the outer batch
C17_Witness ==
  /\ cur.op = "message" /\ Idle /\ err = NoError
  /\ Len(cur.arg.elems) = 2
  /\ 2 \in MessageFrames
  /\ Cardinality(CallsOf(2)) = 2
  /\ Cardinality(CallsOf(1)) = 2
  /\ \A x \in CallsOf(2) : \E j \in CallsOf(1) : log[j].idx = 2 /\ x < j

\* the addon at position p of the list the event found is there although
\* its installation failed: the registry holds another handler for one of
\* its tags
FailedInstall(p) ==
  LET ad == cur.addons0[p]
  IN \E k \in DOMAIN AddonTags(ad) :
       cur.map0[AddonTags(ad)[k]] # [for |-> AddonTags(ad)[k], addon |-> ad, idx |-> k]

\* the fan-out of the call got as far as position p
FanOutReached(p) ==
  \/ Idle /\ err = NoError /\ ~disposed
  \/ \E j \in CallbackIdx : log[j].idx >= p

\* C18: the addon is appended to the list before its handlers are
\* registered: when a registration is refused, the addon it belongs to is
\* the last of the list and stays there, even if none of its handlers was
\* registered. Until dispose(), every lifecycle fan-out that gets to its
\* position invokes its callback for the event, if it defines one.
C18_FailedAddonStays ==
  /\ (Idle /\ err.name = DuplicateHandlerError("").name) =>
       LET refused == log[Len(log)]
       IN /\ refused.e = "register" /\ ~refused.ok
          /\ addons # <<>>
          /\ addons[Len(addons)] = refused.h.addon
          /\ \E i \in LogIdx("push") :
               /\ log[i].addon = refused.h.addon
               /\ \A r \in LogIdx("register") : (i < r /\ r < Len(log)) => log[r].h.addon = refused.h.addon
  /\ (cur.op \in LifecycleEvents /\ ~cur.disposed0) =>
       \A p \in DOMAIN cur.addons0 :
         (/\ FailedInstall(p)
          /\ Defines(cur.addons0[p], MethodFor(cur.op))
          /\ FanOutReached(p))
           => \E j \in CallbackIdx :
                /\ log[j].idx = p
                /\ log[j].addon = cur.addons0[p]
                /\ log[j].method = MethodFor(cur.op)

\* C18 witness: P, whose installation failed on its first handler (B held
\* the tag), so that it registered nothing, is notified of a close event
C18_Witness ==
  /\ cur.op = "close" /\ Idle
  /\ cur.addons0 = <<"VG", "B", "P">>
  /\ cur.map0["b"] = Handler("B", 1)
  /\ cur.map0["visit-global"] = Handler("VG", 1)
  /\ \E j \in CallbackIdx : log[j].idx = 3 /\ log[j].addon = "P" /\ log[j].method = "handleClose"

\* the invocations of user code that called dispose()
DisposeCalls == {j \in LogIdx("call") \cup LogIdx("callback") : log[j].does = "dispose"}

\* C19: dispose() called from inside a handler or a lifecycle callback takes
\* effect at once: the list, the registry and the listeners are empty from
\* then on, and no handler and no callback is invoked after it in that
\* call. In a batch, the command after the disposing handler's fails as an
\* unknown command type (whatever the registry held for it); in a fan-out,
\* the loop ends without an error and the later addons are not notified.
C19_DisposeAtOnce ==
  \A d \in DisposeCalls :
    /\ addons = <<>> /\ listeners = {}
    /\ \A t \in Tags : commandHandleMap[t] = NoHandler
    /\ \A x \in LogIdx("call") \cup LogIdx("callback") : x <= d
    /\ log[d + 1].e = "dispose"
    /\ (log[d].e = "callback" /\ Idle) => err = NoError
    /\ (log[d].e = "call" /\ log[d].idx < Len(PayloadOf(log[d].frame))) =>
         LET next == PayloadOf(log[d].frame)[log[d].idx + 1]
         IN /\ \A x \in LogIdx("command") :
                 x > d => /\ x = Len(log)
                          /\ log[x].frame = log[d].frame
                          /\ log[x].cmd = next
                          /\ log[x].registered = NoHandler
            /\ Idle => err.arg = next.type /\ err.name = "UnknownCommandTypeError"

\* C19 witness: the handler of the first command of a batch called
\* dispose(); the second command, whose type had a handler, failed as unknown
C19_Witness ==
  /\ cur.op = "message" /\ Idle
  /\ Len(cur.arg.elems) = 2
  /\ MapHas(cur.map0, cur.arg.elems[2].type)
  /\ \E d \in DisposeCalls : log[d].e = "call" /\ log[d].frame = 1 /\ log[d].idx = 1
  /\ err.name = "UnknownCommandTypeError"

\* C20: what a callback changes is seen by the loop that invoked it. An
\* addon that a lifecycle callback installs during a fan-out is visited by
\* that same fan-out: when the fan-out returns, every addon appended to the
\* list during it that defines the callback has been notified of the event,
\* after its installation. A handler that a command handler registers
\* during a batch serves the later commands of its type: such a command is
\* dispatched to that handler (as long as dispose() has not been called).
C20_LiveIteration ==
  /\ (cur.op \in LifecycleEvents /\ Idle /\ err = NoError /\ ~disposed) =>
       \A p \in DOMAIN addons :
         (p > Len(cur.addons0) /\ Defines(addons[p], MethodFor(cur.op))) =>
           \E j \in CallbackIdx :
             /\ log[j].idx = p /\ log[j].addon = addons[p]
             /\ Cardinality({i \in LogIdx("push") : i < j}) >= p - Len(cur.addons0)
  /\ cur.op = "message" =>
       \A r \in LogIdx("register") :
         log[r].ok =>
           \A x \in LogIdx("command") :
             (/\ x > r
              /\ log[x].cmd.type = log[r].h.for
              /\ \A d \in LogIdx("dispose") : d < r \/ d > x)
               => /\ log[x].registered = log[r].h
                  /\ x < Len(log)
                  /\ log[x + 1].e = "call"
                  /\ log[x + 1].h = log[r].h
                  /\ log[x + 1].cmd = log[x].cmd

\* C20 witness: the handler of the first command of the batch installed B;
\* the second command, of B's type, which had no handler when the payload
\* arrived, was dispatched to B's handler
C20_Witness ==
  /\ cur.op = "message" /\ Idle /\ err = NoError
  /\ Len(cur.arg.elems) = 2
  /\ cur.arg.elems[2].type = "b"
  /\ ~MapHas(cur.map0, "b")
  /\ \E j \in CallsOf(1) : log[j].idx = 1 /\ log[j].does = "addAddon"
  /\ \E j \in CallsOf(1) : log[j].idx = 2 /\ log[j].h = Handler("B", 1)

====
